---- MODULE Spec2Model ----
(***************************************************************************)
(* Model of dialoguer's Select prompt (src/prompts/select.rs): the builder *)
(* configuration, the two entry points and the key loop of _interact_on.   *)
(* Every `?` of the source is a step that either succeeds or returns the   *)
(* I/O error to the caller.  Paging (crate::paging) and TermThemeRenderer  *)
(* (crate::theme) are modelled from their description; console::Term is    *)
(* modelled by the cursor visibility it controls.                          *)
(***************************************************************************)
EXTENDS Integers, Sequences, FiniteSets, TLC

\* ---------------------------------------------------------------- bounds
MaxItems == 3
MaxCapacity == 3
MaxPresses == 4
MaxWrapItems == 12

\* ------------------------------------------------------------- constants
\* `!0` (usize::MAX), the "nothing highlighted" sentinel; as a signed value
\* it is -1, which is also what `(-1i64) as usize` yields.
Unset == 0 - 1

NoPrompt == "<none>"
Prompts == {NoPrompt, "Pick"}

\* Item texts, each a sequence of '\n'-separated lines.
ItemText(i) == IF i = 2 THEN <<"b1", "b2">> ELSE <<"a">>
ItemLists == {[i \in 1..n |-> ItemText(i)] : n \in 0..MaxItems}

\* A default index is any usize: the builder does not validate it.
Defaults == {Unset} \cup (0..MaxItems)

Capacities == 1..MaxCapacity

Entries == {"interact", "interact_opt", "interact_on", "interact_on_opt"}

DownKeys == {"ArrowDown", "j"}
CancelKeys == {"Escape", "q"}
UpKeys == {"ArrowUp", "k"}
LeftKeys == {"ArrowLeft", "h"}
RightKeys == {"ArrowRight", "l"}
ConfirmKeys == {"Enter", "Space"}
Keys == DownKeys \cup CancelKeys \cup UpKeys \cup LeftKeys \cup RightKeys
          \cup ConfirmKeys \cup {"Tab"}

\* ------------------------------------------------------------ results
Res(t, v) == [tag |-> t, val |-> v]
Pending == Res("Pending", 0)
IoErr == Res("IoErr", 0)
ConfigErr == Res("ConfigErr", 0)
QuitErr == Res("QuitErr", 0)
Panic == Res("Panic", 0)
OkNone == Res("None", 0)
OkSome(i) == Res("Some", i)
OkIdx(i) == Res("Ok", i)

VARIABLES
  items,        \* self.items
  default,      \* self.default
  prompt,       \* self.prompt
  clear,        \* self.clear
  entry,        \* the public entry point that was called
  pc,           \* position in _interact_on
  sel,          \* the highlighted index
  paging,       \* the Paging value
  key,          \* the key returned by the last read_key
  downRun,      \* number of keys read so far when all of them were Down
                \* presses from the unset index, else -1
  cursorHidden, \* terminal cursor visibility
  hideOk,       \* hide_cursor has succeeded
  showCalls,    \* number of show_cursor calls
  termTouched,  \* some terminal output or key read has happened
  drawn,        \* what the last render_page_items drew
  inner,        \* result of _interact_on
  ret,          \* result of the entry point
  paged,        \* self.paged
  screen,       \* the lines the widget has on the terminal, top to bottom
  overErased,   \* a clear_last_lines reached above the widget's own lines
  confirmation, \* arguments of the select_prompt_selection call, if any
  failed,       \* the terminal call that returned the I/O error
  given,        \* the values handed to item()/items(), in call order
  wrap          \* inputs of the wrap-around check: count, start, first key

vars == <<items, default, prompt, clear, entry, pc, sel, paging, key,
          downRun, cursorHidden, hideOk, showCalls, termTouched, drawn,
          inner, ret, paged, screen, overErased, confirmation, failed,
          given, wrap>>

config == <<items, default, prompt, clear, entry, paged>>
term == <<cursorHidden, hideOk, showCalls, termTouched>>
out == <<screen, overErased, confirmation, failed>>
aux == <<given, wrap>>

\* ---------------------------------------------------------- entry points
AllowQuitAlways(e) == TRUE

AllowQuit(e) == e \in {"interact_opt", "interact_on_opt"}

allow_quit == AllowQuit(entry)

\* ------------------------------------------------------------- Paging
CeilDiv(a, b) == (a + b - 1) \div b

PagingNew(cap, n) ==
  [capacity |-> cap, pages |-> CeilDiv(n, cap), current_page |-> 0]

PagingUpdate(p, cursor_pos, cap, n) ==
  [capacity |-> cap,
   pages |-> CeilDiv(n, cap),
   current_page |-> IF cursor_pos = Unset THEN 0 ELSE cursor_pos \div cap]

Enabled(p) == p.pages > 1

NextPage(p) ==
  [p EXCEPT !.current_page = (p.current_page + 1) % p.pages]

PreviousPage(p) ==
  [p EXCEPT !.current_page = (p.current_page - 1 + p.pages) % p.pages]

FirstOfPage(p) == p.current_page * p.capacity

PageItems(p, n) ==
  {idx \in 0..(n - 1) : idx \div p.capacity = p.current_page}

\* The visitor is invoked once per item of the page, in list order.
PageOrder(p, n) ==
  [j \in 1..Cardinality(PageItems(p, n)) |-> FirstOfPage(p) + j - 1]

\* --------------------------------------------------------- key decisions
\* i64 `%`: the remainder takes the sign of the dividend.
RemI64(a, b) == IF a >= 0 THEN a % b ELSE 0 - ((0 - a) % b)

DownStepNoWrap(s, n) == IF s = Unset THEN 0 ELSE s + 1

DownStep(s, n) == IF s = Unset THEN 0 ELSE (s + 1) % n

UpStepNoOffset(s, n) == IF s = Unset THEN n - 1 ELSE RemI64(s - 1, n)

UpStepSaturating(s, n) ==
  IF s = Unset THEN n - 1 ELSE IF s = 0 THEN 0 ELSE s - 1

UpStep(s, n) == IF s = Unset THEN n - 1 ELSE RemI64(s - 1 + n, n)

\* --------------------------------------------------- the terminal screen
Min(a, b) == IF a < b THEN a ELSE b

\* Term::clear_last_lines(k): the k lines above the cursor are erased.
ClearLastLines(scr, k) == SubSeq(scr, 1, Len(scr) - Min(k, Len(scr)))

RECURSIVE SumHeights(_, _)
SumHeights(its, idxs) ==
  IF idxs = {} THEN 0
  ELSE LET i == CHOOSE j \in idxs : TRUE
       IN  Len(its[i + 1]) + SumHeights(its, idxs \ {i})

\* The lines select_prompt_item puts on the screen for the items of a page:
\* an item with embedded line breaks takes one screen line per line.
ItemLines(its, idxs) == [j \in 1..SumHeights(its, idxs) |-> "item"]

\* TermThemeRenderer::clear: the whole rendered region is erased.
RenderClear(scr) == <<>>

\* TermThemeRenderer::clear_preserve_prompt: the rendered items are erased,
\* the prompt or page banner stays.
IsItemLine(l) == l = "item"
IsBannerLine(l) == l # "item"
RenderClearPreservePrompt(scr) == SelectSeq(scr, IsBannerLine)

\* ------------------------------------------------- `?` on a run of calls
\* ops is the sequence of fallible calls of a straight-line block and
\* failAt the position of the call that fails (0: none does).
Attempted(ops, failAt) == IF failAt = 0 THEN ops ELSE SubSeq(ops, 1, failAt)
\* Variant of Succeeded in which the calls after the failing one are made.
SucceededSkipFailed(ops, failAt) ==
  IF failAt = 0 THEN ops
  ELSE SubSeq(ops, 1, failAt - 1) \o SubSeq(ops, failAt + 1, Len(ops))

Succeeded(ops, failAt) == IF failAt = 0 THEN ops ELSE SubSeq(ops, 1, failAt - 1)
Has(s, op) == \E i \in DOMAIN s : s[i] = op
Count(s, op) == Cardinality({i \in DOMAIN s : s[i] = op})

\* ------------------------------------------------------------------ Init
Init ==
  /\ items \in ItemLists
  /\ default \in Defaults
  /\ prompt \in Prompts
  /\ clear \in BOOLEAN
  /\ entry \in Entries
  /\ pc = "entry"
  /\ sel = Unset
  /\ paging = PagingNew(1, 0)
  /\ key = "Tab"
  /\ downRun = 0 - 1
  /\ cursorHidden = FALSE
  /\ hideOk = FALSE
  /\ showCalls = 0
  /\ termTouched = FALSE
  /\ drawn = [idxs |-> {}, hl |-> {}, order |-> <<>>]
  /\ inner = Pending
  /\ ret = Pending
  /\ paged = FALSE
  /\ screen = <<>>
  /\ overErased = FALSE
  /\ confirmation = <<>>
  /\ failed = "none"
  /\ given = <<>>
  /\ wrap = <<>>

\* --------------------------------------------------------- _interact_on
\* Paging::new, then the empty-list check.
BeginRenderFirst ==
  /\ pc = "entry"
  /\ \E cap \in Capacities : paging' = PagingNew(cap, Len(items))
  /\ termTouched' = TRUE
  /\ IF Len(items) = 0
       THEN inner' = ConfigErr /\ pc' = "return"
       ELSE inner' = inner /\ pc' = "prompt"
  /\ UNCHANGED <<config, aux, out, sel, key, downRun, cursorHidden, hideOk,
                 showCalls, drawn, ret>>

Begin ==
  /\ pc = "entry"
  /\ \E cap \in Capacities : paging' = PagingNew(cap, Len(items))
  /\ IF Len(items) = 0
       THEN inner' = ConfigErr /\ pc' = "return"
       ELSE inner' = inner /\ pc' = "prompt"
  /\ UNCHANGED <<config, aux, out, sel, key, downRun, term, drawn, ret>>

\* A call that fails: `?` returns the error at once.
Fail(op) ==
  /\ inner' = IoErr
  /\ failed' = op
  /\ pc' = "return"

\* let mut sel = self.default; render.select_prompt(prompt)?
SelectPrompt ==
  /\ pc = "prompt"
  /\ sel' = default
  /\ downRun' = IF default = Unset THEN 0 ELSE 0 - 1
  /\ IF prompt = NoPrompt
       THEN pc' = "hide_cursor" /\ UNCHANGED <<inner, termTouched, screen, failed>>
       ELSE /\ termTouched' = TRUE
            /\ \/ /\ pc' = "hide_cursor"
                  /\ screen' = Append(screen, "prompt")
                  /\ UNCHANGED <<inner, failed>>
               \/ Fail("select_prompt") /\ screen' = screen
  /\ UNCHANGED <<config, aux, overErased, confirmation, paging, key,
                 cursorHidden, hideOk, showCalls, drawn, ret>>

\* term.hide_cursor()?
HideCursor ==
  /\ pc = "hide_cursor"
  /\ termTouched' = TRUE
  /\ \/ /\ cursorHidden' = TRUE
        /\ hideOk' = TRUE
        /\ pc' = "update"
        /\ UNCHANGED <<inner, failed>>
     \/ Fail("hide_cursor") /\ UNCHANGED <<cursorHidden, hideOk>>
  /\ UNCHANGED <<config, aux, screen, overErased, confirmation, sel, paging,
                 key, downRun, showCalls, drawn, ret>>

\* paging.update(sel)?
Update ==
  /\ pc = "update"
  /\ \/ /\ \E cap \in Capacities :
             paging' = PagingUpdate(paging, sel, cap, Len(items))
        /\ pc' = "clear_paged"
        /\ UNCHANGED <<inner, failed>>
     \/ Fail("update") /\ paging' = paging
  /\ UNCHANGED <<config, aux, screen, overErased, confirmation, sel, key,
                 downRun, term, drawn, ret>>

\* if paging.enabled() { term.clear_last_lines(paging.capacity())?;
\*                       render.select_prompt_paged(..)? }
ClearPaged ==
  /\ pc = "clear_paged"
  /\ IF Enabled(paging)
       THEN LET ops == IF prompt = NoPrompt
                         THEN <<"clear_last_lines">>
                         ELSE <<"clear_last_lines", "select_prompt_paged">>
            IN  /\ termTouched' = TRUE
                /\ \E failAt \in 0..Len(ops) :
                     LET done == Succeeded(ops, failAt)
                         s1 == IF Has(done, "clear_last_lines")
                                 THEN ClearLastLines(screen, paging.capacity)
                                 ELSE screen
                     IN  /\ screen' = IF Has(done, "select_prompt_paged")
                                        THEN Append(s1, "banner") ELSE s1
                         /\ overErased' =
                              (overErased \/ (Has(done, "clear_last_lines")
                                              /\ paging.capacity > Len(screen)))
                         /\ IF failAt = 0
                              THEN pc' = "render" /\ UNCHANGED <<inner, failed>>
                              ELSE Fail(ops[failAt])
       ELSE /\ pc' = "render"
            /\ UNCHANGED <<inner, termTouched, screen, overErased, failed>>
  /\ UNCHANGED <<config, aux, confirmation, sel, paging, key, downRun,
                 cursorHidden, hideOk, showCalls, drawn, ret>>

\* paging.render_page_items(|idx, item| render.select_prompt_item(item, sel == idx))?
RenderPageItems ==
  /\ pc = "render"
  /\ termTouched' = TRUE
  /\ \/ /\ drawn' = [idxs |-> PageItems(paging, Len(items)),
                     hl |-> {idx \in PageItems(paging, Len(items)) : sel = idx},
                     order |-> PageOrder(paging, Len(items))]
        /\ screen' = screen \o ItemLines(items, PageItems(paging, Len(items)))
        /\ pc' = "read_key"
        /\ UNCHANGED <<inner, failed>>
     \/ Fail("render_page_items") /\ UNCHANGED <<drawn, screen>>
  /\ UNCHANGED <<config, aux, overErased, confirmation, sel, paging, key,
                 downRun, cursorHidden, hideOk, showCalls, ret>>

\* term.read_key()?
ReadKey ==
  /\ pc = "read_key"
  /\ downRun < MaxPresses
  /\ termTouched' = TRUE
  /\ \/ /\ \E k \in Keys : key' = k
        /\ pc' = "match"
        /\ UNCHANGED <<inner, failed>>
     \/ Fail("read_key") /\ key' = key
  /\ UNCHANGED <<config, aux, screen, overErased, confirmation, sel, paging,
                 downRun, cursorHidden, hideOk, showCalls, drawn, ret>>

\* Key::ArrowDown | Key::Char('j')
KeyDown ==
  /\ pc = "match"
  /\ key \in DownKeys
  /\ sel' = DownStep(sel, Len(items))
  /\ downRun' = IF downRun >= 0 THEN downRun + 1 ELSE downRun
  /\ pc' = "clear_preserve_prompt"
  /\ UNCHANGED <<config, aux, out, paging, key, term, drawn, inner, ret>>

\* The body of `if allow_quit { .. }`: clear_last_lines(self.items.len()),
\* show_cursor and flush when self.clear is set, then return Ok(None).
QuitArm ==
  LET ops == IF clear THEN <<"clear_last_lines", "show_cursor", "flush">>
             ELSE <<>>
  IN  \E failAt \in 0..Len(ops) :
        LET done == Succeeded(ops, failAt)
        IN  /\ screen' = IF Has(done, "clear_last_lines")
                           THEN ClearLastLines(screen, Len(items)) ELSE screen
            /\ overErased' = (overErased \/ (Has(done, "clear_last_lines")
                                             /\ Len(items) > Len(screen)))
            /\ cursorHidden' = (cursorHidden /\ ~Has(done, "show_cursor"))
            /\ showCalls' = showCalls + Count(Attempted(ops, failAt), "show_cursor")
            /\ inner' = IF failAt = 0 THEN OkNone ELSE IoErr
            /\ failed' = IF failAt = 0 THEN failed ELSE ops[failAt]
            /\ pc' = "return"
            /\ UNCHANGED <<hideOk, termTouched, downRun, confirmation>>

\* Key::Escape | Key::Char('q')
KeyEscapeNoCheck ==
  /\ pc = "match"
  /\ key \in CancelKeys
  /\ QuitArm
  /\ UNCHANGED <<config, aux, sel, paging, key, drawn, ret>>

KeyEscapeErr ==
  /\ pc = "match"
  /\ key \in CancelKeys
  /\ IF allow_quit
       THEN QuitArm
       ELSE /\ inner' = QuitErr
            /\ pc' = "return"
            /\ downRun' = 0 - 1
            /\ UNCHANGED <<term, out>>
  /\ UNCHANGED <<config, aux, sel, paging, key, drawn, ret>>

KeyEscape ==
  /\ pc = "match"
  /\ key \in CancelKeys
  /\ IF allow_quit
       THEN QuitArm
       ELSE /\ pc' = "clear_preserve_prompt"
            /\ downRun' = 0 - 1
            /\ UNCHANGED <<term, out, inner>>
  /\ UNCHANGED <<config, aux, sel, paging, key, drawn, ret>>

\* Key::ArrowUp | Key::Char('k')
KeyUp ==
  /\ pc = "match"
  /\ key \in UpKeys
  /\ sel' = UpStep(sel, Len(items))
  /\ downRun' = 0 - 1
  /\ pc' = "clear_preserve_prompt"
  /\ UNCHANGED <<config, aux, out, paging, key, term, drawn, inner, ret>>

\* Key::ArrowLeft | Key::Char('h')
KeyLeft ==
  /\ pc = "match"
  /\ key \in LeftKeys
  /\ IF Enabled(paging)
       THEN /\ paging' = PreviousPage(paging)
            /\ sel' = FirstOfPage(paging')
       ELSE UNCHANGED <<paging, sel>>
  /\ downRun' = 0 - 1
  /\ pc' = "clear_preserve_prompt"
  /\ UNCHANGED <<config, aux, out, key, term, drawn, inner, ret>>

\* Key::ArrowRight | Key::Char('l')
KeyRightNoGuard ==
  /\ pc = "match"
  /\ key \in RightKeys
  /\ paging' = NextPage(paging)
  /\ sel' = FirstOfPage(paging')
  /\ downRun' = 0 - 1
  /\ pc' = "clear_preserve_prompt"
  /\ UNCHANGED <<config, aux, out, key, term, drawn, inner, ret>>

KeyRight ==
  /\ pc = "match"
  /\ key \in RightKeys
  /\ IF Enabled(paging)
       THEN /\ paging' = NextPage(paging)
            /\ sel' = FirstOfPage(paging')
       ELSE UNCHANGED <<paging, sel>>
  /\ downRun' = 0 - 1
  /\ pc' = "clear_preserve_prompt"
  /\ UNCHANGED <<config, aux, out, key, term, drawn, inner, ret>>

\* render.select_prompt_selection(prompt, &self.items[sel])
ConfirmationArgsFirst(p, its, s) == <<p, its[1]>>

ConfirmationArgs(p, its, s) == <<p, its[s + 1]>>

\* Key::Enter | Key::Char(' ') if sel != !0
KeyEnter ==
  /\ pc = "match"
  /\ key \in ConfirmKeys
  /\ sel # Unset
  /\ LET before == IF clear THEN <<"clear">> ELSE <<>>
         confirm == IF prompt = NoPrompt THEN <<>>
                    ELSE <<"select_prompt_selection">>
         ops == before \o confirm \o <<"show_cursor", "flush">>
     IN  IF prompt # NoPrompt /\ sel >= Len(items)
           \* &self.items[sel] is out of bounds: the call panics, after
           \* render.clear() has succeeded or failed
           THEN \E failAt \in 0..Len(before) :
                  /\ screen' = IF Has(Succeeded(before, failAt), "clear")
                                 THEN RenderClear(screen) ELSE screen
                  /\ inner' = IF failAt = 0 THEN Panic ELSE IoErr
                  /\ failed' = IF failAt = 0 THEN failed ELSE before[failAt]
                  /\ pc' = "return"
                  /\ UNCHANGED <<cursorHidden, showCalls, confirmation>>
           ELSE \E failAt \in 0..Len(ops) :
                  LET done == Succeeded(ops, failAt)
                      s1 == IF Has(done, "clear") THEN RenderClear(screen)
                            ELSE screen
                  IN  /\ screen' = IF Has(done, "select_prompt_selection")
                                     THEN Append(s1, "confirmation") ELSE s1
                      /\ confirmation' =
                           IF Has(done, "select_prompt_selection")
                             THEN ConfirmationArgs(prompt, items, sel)
                             ELSE confirmation
                      /\ cursorHidden' = (cursorHidden /\ ~Has(done, "show_cursor"))
                      /\ showCalls' =
                           showCalls + Count(Attempted(ops, failAt), "show_cursor")
                      /\ inner' = IF failAt = 0 THEN OkSome(sel) ELSE IoErr
                      /\ failed' = IF failAt = 0 THEN failed ELSE ops[failAt]
                      /\ pc' = "return"
  /\ UNCHANGED <<config, aux, overErased, sel, paging, key, downRun, hideOk,
                 termTouched, drawn, ret>>

\* `_ => {}`: every other key, and Enter/Space while nothing is highlighted
KeyOther ==
  /\ pc = "match"
  /\ \/ key \notin (DownKeys \cup CancelKeys \cup UpKeys \cup LeftKeys
                      \cup RightKeys \cup ConfirmKeys)
     \/ key \in ConfirmKeys /\ sel = Unset
  /\ downRun' = 0 - 1
  /\ pc' = "clear_preserve_prompt"
  /\ UNCHANGED <<config, aux, out, sel, paging, key, term, drawn, inner, ret>>

\* render.clear_preserve_prompt(&size_vec)?
ClearPreservePrompt ==
  /\ pc = "clear_preserve_prompt"
  /\ \/ /\ screen' = RenderClearPreservePrompt(screen)
        /\ pc' = "update"
        /\ UNCHANGED <<inner, failed>>
     \/ Fail("clear_preserve_prompt") /\ screen' = screen
  /\ UNCHANGED <<config, aux, overErased, confirmation, sel, paging, key,
                 downRun, term, drawn, ret>>

\* ------------------------------------------------------- the entry points
\* interact_on: `?` then ok_or_else(..); interact_on_opt: the value itself.
EntryResult(e, r) ==
  IF e \in {"interact_opt", "interact_on_opt"} THEN r
  ELSE IF r.tag = "Some" THEN OkIdx(r.val)
  ELSE IF r.tag = "None" THEN QuitErr
  ELSE r

Return ==
  /\ pc = "return"
  /\ ret' = EntryResult(entry, inner)
  /\ pc' = "done"
  /\ UNCHANGED <<config, aux, out, sel, paging, key, downRun, term, drawn,
                 inner>>

Next ==
  \/ Begin
  \/ SelectPrompt
  \/ HideCursor
  \/ Update
  \/ ClearPaged
  \/ RenderPageItems
  \/ ReadKey
  \/ KeyDown
  \/ KeyEscape
  \/ KeyUp
  \/ KeyLeft
  \/ KeyRight
  \/ KeyEnter
  \/ KeyOther
  \/ ClearPreservePrompt
  \/ Return

Spec == Init /\ [][Next]_vars

TypeOK ==
  /\ pc \in {"entry", "prompt", "hide_cursor", "update", "clear_paged",
             "render", "read_key", "match", "clear_preserve_prompt",
             "return", "done"}
  /\ key \in Keys
  /\ showCalls \in 0..1
  /\ downRun \in (0 - 1)..MaxPresses

\* ------------------------------------------------------------ the builder
\* Values handed to item()/items(): any T: ToString, here strings (given as
\* their lines) and integers.
StrVal(ls) == [ty |-> "str", lines |-> ls, num |-> 0]
IntVal(n) == [ty |-> "int", lines |-> <<>>, num |-> n]
ItemValues == {StrVal(<<"a">>), StrVal(<<"b1", "b2">>), IntVal(7)}

\* T::to_string()
ToStr(x) == IF x.ty = "int" THEN <<ToString(x.num)>> ELSE x.lines

\* for item in items { self.items.push(item.to_string()); }
RECURSIVE PushAllReversed(_, _)
PushAllReversed(its, xs) ==
  IF xs = <<>> THEN its
  ELSE Append(PushAllReversed(its, Tail(xs)), ToStr(Head(xs)))

RECURSIVE PushAll(_, _)
PushAll(its, xs) ==
  IF xs = <<>> THEN its
  ELSE PushAll(Append(its, ToStr(Head(xs))), Tail(xs))

Slices == UNION {[1..n -> ItemValues] : n \in 0..2}

run == <<sel, paging, key, downRun, term, out, drawn, inner, ret, wrap>>

\* Select::with_theme
InitBuilder ==
  /\ items = <<>>
  /\ default = Unset
  /\ prompt = NoPrompt
  /\ clear = TRUE
  /\ paged = FALSE
  /\ entry = "interact"
  /\ pc = "build"
  /\ sel = Unset
  /\ paging = PagingNew(1, 0)
  /\ key = "Tab"
  /\ downRun = 0 - 1
  /\ cursorHidden = FALSE
  /\ hideOk = FALSE
  /\ showCalls = 0
  /\ termTouched = FALSE
  /\ drawn = [idxs |-> {}, hl |-> {}, order |-> <<>>]
  /\ inner = Pending
  /\ ret = Pending
  /\ screen = <<>>
  /\ overErased = FALSE
  /\ confirmation = <<>>
  /\ failed = "none"
  /\ given = <<>>
  /\ wrap = <<>>

\* Select::paged
Paged ==
  /\ pc = "build"
  /\ \E val \in BOOLEAN : paged' = val
  /\ UNCHANGED <<items, default, prompt, clear, entry, pc, given, run>>

\* Select::clear
Clear ==
  /\ pc = "build"
  /\ \E val \in BOOLEAN : clear' = val
  /\ UNCHANGED <<items, default, prompt, paged, entry, pc, given, run>>

\* Select::default
Default ==
  /\ pc = "build"
  /\ \E val \in Defaults : default' = val
  /\ UNCHANGED <<items, prompt, clear, paged, entry, pc, given, run>>

\* Select::item
Item ==
  /\ pc = "build"
  /\ Len(items) < MaxItems
  /\ \E x \in ItemValues :
       /\ items' = Append(items, ToStr(x))
       /\ given' = Append(given, x)
  /\ UNCHANGED <<default, prompt, clear, paged, entry, pc, run>>

\* Select::items
Items ==
  /\ pc = "build"
  /\ \E xs \in Slices :
       /\ Len(items) + Len(xs) <= MaxItems
       /\ items' = PushAll(items, xs)
       /\ given' = given \o xs
  /\ UNCHANGED <<default, prompt, clear, paged, entry, pc, run>>

\* Select::with_prompt
WithPrompt ==
  /\ pc = "build"
  /\ \E p \in {"Pick", "Other"} : prompt' = p
  /\ UNCHANGED <<items, default, clear, paged, entry, pc, given, run>>

\* interact / interact_opt / interact_on / interact_on_opt is called
Interact ==
  /\ pc = "build"
  /\ \E e \in Entries : entry' = e
  /\ pc' = "entry"
  /\ UNCHANGED <<items, default, prompt, clear, paged, given, run>>

NextBuilder ==
  \/ Paged
  \/ Clear
  \/ Default
  \/ Item
  \/ Items
  \/ WithPrompt
  \/ Interact

SpecBuilder == InitBuilder /\ [][NextBuilder]_vars


\* ------------------------------------------- the two wrap-around steps
\* The Down and Up index computations applied one after the other to every
\* item count and every set index.
WrapInputs ==
  {[n |-> n, start |-> i, first |-> "none"] :
     n \in 1..MaxWrapItems, i \in 0..(MaxWrapItems - 1)}

InitWrap ==
  /\ wrap \in {w \in WrapInputs : w.start < w.n}
  /\ sel = wrap.start
  /\ pc = "wrap0"
  /\ items = <<>>
  /\ default = Unset
  /\ prompt = NoPrompt
  /\ clear = TRUE
  /\ paged = FALSE
  /\ entry = "interact"
  /\ paging = PagingNew(1, 0)
  /\ key = "Tab"
  /\ downRun = 0 - 1
  /\ cursorHidden = FALSE
  /\ hideOk = FALSE
  /\ showCalls = 0
  /\ termTouched = FALSE
  /\ drawn = [idxs |-> {}, hl |-> {}, order |-> <<>>]
  /\ inner = Pending
  /\ ret = Pending
  /\ screen = <<>>
  /\ overErased = FALSE
  /\ confirmation = <<>>
  /\ failed = "none"
  /\ given = <<>>

WrapAdvance(kind) ==
  /\ pc \in {"wrap0", "wrap1"}
  /\ pc' = IF pc = "wrap0" THEN "wrap1" ELSE "wrap2"
  /\ wrap' = IF pc = "wrap0" THEN [wrap EXCEPT !.first = kind] ELSE wrap
  /\ UNCHANGED <<config, given, paging, downRun, term, out, drawn, inner, ret>>

\* Key::ArrowDown | Key::Char('j') on a list of wrap.n items
WrapDown ==
  /\ WrapAdvance("down")
  /\ \E k \in DownKeys : key' = k
  /\ sel' = DownStep(sel, wrap.n)

\* Key::ArrowUp | Key::Char('k') on a list of wrap.n items
WrapUp ==
  /\ WrapAdvance("up")
  /\ \E k \in UpKeys : key' = k
  /\ sel' = UpStep(sel, wrap.n)

NextWrap ==
  \/ WrapDown
  \/ WrapUp

SpecWrap == InitWrap /\ [][NextWrap]_vars

\* ================================================================ claims
ForcedEntries == {"interact", "interact_on"}
OptEntries == {"interact_opt", "interact_on_opt"}
LoopPcs == {"update", "clear_paged", "render", "read_key", "match",
            "clear_preserve_prompt"}
Returned == pc \in {"return", "done"}
ItemCount == Len(items)

\* C1: once hide_cursor has succeeded the cursor is hidden during the whole
\* loop, and when the interaction returns Selected or Cancelled show_cursor
\* has been called exactly once and the cursor is visible again.
C1_CursorRestoredOnce ==
  /\ (hideOk /\ pc \in LoopPcs) => cursorHidden
  /\ (Returned /\ inner.tag \in {"Some", "None"}) =>
        (showCalls = 1 /\ ~cursorHidden)

\* C2: when a terminal operation fails after hide_cursor succeeded, the
\* I/O error is never returned with the cursor still hidden.
C2_CursorRestoredOnError ==
  (Returned /\ inner = IoErr /\ hideOk) => ~cursorHidden

\* C3: with an empty item list every entry point returns the configuration
\* error and the terminal has not been touched: no prompt, no hide_cursor,
\* no clear, no render, no key read.
C3_EmptyListNoTerminalMutation ==
  ItemCount = 0 =>
    /\ pc \in {"entry", "return", "done"}
    /\ ~termTouched /\ ~hideOk /\ ~cursorHidden /\ showCalls = 0
    /\ drawn.idxs = {}
    /\ Returned => inner = ConfigErr
    /\ pc = "done" => ret = ConfigErr

C3_Witness ==
  ItemCount = 0 /\ pc = "done" /\ ret = ConfigErr /\ entry = "interact_on_opt"

\* C4: the highlighted index is always the unset sentinel or an index in
\* [0, itemCount), and a returned index is a position of the item list.
C4_IndexInRange ==
  /\ pc \notin {"entry", "prompt"} => (sel = Unset \/ sel \in 0..(ItemCount - 1))
  /\ ret.tag \in {"Some", "Ok"} => ret.val \in 0..(ItemCount - 1)

\* C5: starting from the unset index, after k >= 1 consecutive Down presses
\* the highlighted index is (k - 1) mod itemCount.
C5_DownRun ==
  downRun >= 1 => sel = (downRun - 1) % ItemCount

C5_Witness ==
  downRun > ItemCount /\ ItemCount >= 2 /\ sel = 0 /\ pc = "read_key"

\* C6: Up sets the unset index to itemCount - 1 and a set index i to
\* (i - 1 + itemCount) mod itemCount; Up from 0 gives itemCount - 1 and Down
\* from itemCount - 1 gives 0, whatever the page boundaries are.
C6_UpAndWrap ==
  [][/\ (pc = "match" /\ key \in UpKeys) =>
          /\ sel = Unset => sel' = ItemCount - 1
          /\ sel = 0 => sel' = ItemCount - 1
          /\ sel \in 1..(ItemCount - 1) => sel' = sel - 1
          /\ sel # Unset => sel' = (sel - 1 + ItemCount) % ItemCount
     /\ (pc = "match" /\ key \in DownKeys /\ sel = ItemCount - 1) => sel' = 0
    ]_vars

C6_Witness ==
  /\ pc = "clear_preserve_prompt" /\ key \in UpKeys
  /\ drawn.hl = {0} /\ sel = ItemCount - 1 /\ ItemCount >= 2
  /\ Enabled(paging) /\ paging.current_page = 0 /\ sel \notin drawn.idxs

\* C7: Enter/Space while the index is unset changes nothing and the loop
\* goes on; while the index is set to i the interaction ends with
\* Selected(i) (unless a terminal call fails), and i is the index that the
\* last render highlighted.
C7_ConfirmSemantics ==
  [][(pc = "match" /\ key \in ConfirmKeys) =>
       IF sel = Unset
         THEN /\ inner' = Pending /\ ret' = Pending
              /\ sel' = sel /\ paging' = paging
              /\ pc' = "clear_preserve_prompt"
         ELSE /\ pc' = "return"
              /\ inner' = IoErr \/ (inner' = OkSome(sel) /\ drawn.hl = {sel})
    ]_vars

\* C8: a cancel key that the configuration does not allow is ignored: index
\* and page unchanged, no result, no error, the loop continues.
C8_CancelIgnored ==
  [][(pc = "match" /\ key \in CancelKeys /\ ~allow_quit) =>
       /\ sel' = sel /\ paging' = paging
       /\ inner' = Pending /\ ret' = Pending
       /\ UNCHANGED term
       /\ pc' = "clear_preserve_prompt"
    ]_vars

C8_Witness ==
  /\ pc = "clear_preserve_prompt" /\ key \in CancelKeys /\ ~allow_quit
  /\ inner = Pending /\ sel # Unset /\ paging.current_page > 0

\* C9 as stated: a cancel key under the forcing entry point ends the
\* interaction with an error; the optional entry point returns None on
\* cancel and Some(index) on confirmation.
C9_ForcedCancelErrors ==
  /\ [][(pc = "match" /\ key \in CancelKeys /\ entry \in ForcedEntries) =>
          (pc' = "return" /\ inner'.tag \notin {"Pending", "Some"})]_vars
  /\ [](pc = "done" =>
          /\ entry \in OptEntries => ret = inner
          /\ (entry \in ForcedEntries /\ inner.tag = "None") => ret = QuitErr)

\* C9 amended: under the forcing entry point a cancel key is ignored (no
\* result, no error, the loop continues), so that entry point never returns
\* the "quit not allowed" error and returns Ok(index) on confirmation; the
\* optional entry point returns None on cancel and Some(index) on
\* confirmation.
C9_EntryPoints ==
  /\ [][(pc = "match" /\ key \in CancelKeys /\ entry \in ForcedEntries) =>
          (pc' = "clear_preserve_prompt" /\ inner' = Pending)]_vars
  /\ [][(pc = "match" /\ key \in CancelKeys /\ entry \in OptEntries) =>
          (pc' = "return" /\ inner' \in {OkNone, IoErr})]_vars
  /\ [](pc = "done" =>
          /\ ret # QuitErr
          /\ entry \in OptEntries => ret = inner
          /\ (entry \in ForcedEntries /\ inner.tag = "Some") =>
                ret = OkIdx(inner.val)
          /\ (entry \in ForcedEntries /\ inner.tag # "Some") => ret = inner)

C9_Witness ==
  /\ entry = "interact" /\ pc = "clear_preserve_prompt" /\ key \in CancelKeys
  /\ inner = Pending /\ ret = Pending /\ cursorHidden

\* C10: the interaction ends with Cancelled exactly when cancellation is
\* allowed and the key just read is Escape or `q`, whatever the index and
\* the page are.
C10_CancelledIff ==
  /\ [](inner = OkNone => (allow_quit /\ key \in CancelKeys))
  /\ [][(pc = "match" /\ key \in CancelKeys /\ allow_quit) =>
          /\ pc' = "return"
          /\ inner' = OkNone \/ (clear /\ inner' = IoErr)]_vars
  /\ [][(pc = "match" /\ ~(key \in CancelKeys /\ allow_quit)) =>
          inner' # OkNone]_vars

C10_Witness ==
  /\ inner = OkNone /\ pc = "done" /\ ret = OkNone
  /\ sel # Unset /\ paging.current_page > 0 /\ ~clear

\* C11: a confirmation is rendered only by a confirming key with a prompt
\* configured, it receives the prompt text and items[index], and it is there
\* whenever the interaction ends with Selected(index) and a prompt is set;
\* none is rendered without a prompt or when the interaction is cancelled.
C11_Confirmation ==
  /\ prompt = NoPrompt => confirmation = <<>>
  /\ inner = OkNone => confirmation = <<>>
  /\ (inner.tag = "Some" /\ prompt # NoPrompt) =>
        confirmation = <<prompt, items[inner.val + 1]>>
  /\ confirmation # <<>> =>
        /\ key \in ConfirmKeys
        /\ sel \in 0..(ItemCount - 1)
        /\ confirmation = <<prompt, items[sel + 1]>>
        /\ inner \in {OkSome(sel), IoErr}

C11_Witness ==
  /\ pc = "done" /\ ret.tag \in {"Some", "Ok"} /\ ret.val = 1
  /\ confirmation = <<"Pick", <<"b1", "b2">>>>

\* C12: with clear-on-exit set, after Selected or Cancelled no line that the
\* widget rendered (items, page banner, prompt) is left on the screen; with
\* the flag unset the terminating action clears nothing.
C12_ClearOnExit ==
  /\ []((Returned /\ inner.tag \in {"Some", "None"} /\ clear) =>
          \A i \in DOMAIN screen : screen[i] = "confirmation")
  /\ [][(pc = "match" /\ pc' = "return" /\ ~clear) =>
          /\ screen' \in {screen, Append(screen, "confirmation")}
          /\ overErased' = overErased]_vars

\* C14: after any sequence of builder calls the item list is the string
\* forms of the values given to item() and items(), in call order; default(),
\* clear(), with_prompt() and paged() leave the item list alone.
C14_ItemsInCallOrder ==
  /\ [](items = [i \in 1..Len(given) |-> ToStr(given[i])])
  /\ [][(default' # default \/ clear' # clear \/ prompt' # prompt
           \/ paged' # paged \/ pc' # pc) => items' = items]_vars

C14_Witness ==
  /\ pc = "entry" /\ Len(items) = 3
  /\ given = <<StrVal(<<"b1", "b2">>), IntVal(7), StrVal(<<"a">>)>>
  /\ items = <<(<<"b1", "b2">>), (<<"7">>), (<<"a">>)>>
  /\ default = 1 /\ prompt = "Other" /\ ~clear

\* C15: Left/h and Right/l change nothing while paging is not active; while
\* it is active they move to the previous/next page, wrapping over the page
\* count, and highlight the first item of that page, from any index.
C15_PageKeys ==
  [][(pc = "match" /\ key \in LeftKeys \cup RightKeys) =>
       IF ~Enabled(paging)
         THEN sel' = sel /\ paging' = paging
         ELSE /\ paging'.pages = paging.pages
              /\ paging'.capacity = paging.capacity
              /\ key \in RightKeys =>
                   paging'.current_page =
                     (paging.current_page + 1) % paging.pages
              /\ key \in LeftKeys =>
                   paging'.current_page =
                     (paging.current_page + paging.pages - 1) % paging.pages
              /\ sel' = paging'.current_page * paging.capacity
    ]_vars

C15_Witness ==
  /\ pc = "clear_preserve_prompt" /\ key \in RightKeys
  /\ Enabled(paging) /\ paging.current_page = 1 /\ paging.capacity = 2
  /\ sel = 2 /\ drawn.idxs = {0, 1} /\ drawn.hl = {}

AfterUpdate == pc \in {"clear_paged", "render", "read_key", "match"}

\* C16: after every pager update paging is enabled exactly when the item
\* count exceeds the page capacity, the page count is ceil(itemCount /
\* capacity) and the current page is in [0, pageCount); a list that fits is
\* rendered whole on one page.
C16_PagerState ==
  AfterUpdate =>
    /\ Enabled(paging) <=> ItemCount > paging.capacity
    /\ paging.pages * paging.capacity >= ItemCount
    /\ (paging.pages - 1) * paging.capacity < ItemCount
    /\ paging.current_page \in 0..(paging.pages - 1)
    /\ ~Enabled(paging) => PageItems(paging, ItemCount) = 0..(ItemCount - 1)

\* C17: a render step draws exactly the items of the current page in list
\* order; that page holds the highlighted index when it is set (list index 0
\* when it is unset), so exactly the item at the highlighted index is marked,
\* and none when the index is unset.
C17_RenderedPage ==
  pc = "read_key" =>
    /\ drawn.idxs = {i \in 0..(ItemCount - 1) :
                       /\ i >= paging.current_page * paging.capacity
                       /\ i < (paging.current_page + 1) * paging.capacity}
    /\ Len(drawn.order) = Cardinality(drawn.idxs)
    /\ \A j \in DOMAIN drawn.order :
         /\ drawn.order[j] \in drawn.idxs
         /\ j > 1 => drawn.order[j - 1] < drawn.order[j]
    /\ IF sel = Unset
         THEN 0 \in drawn.idxs /\ drawn.hl = {}
         ELSE sel \in drawn.idxs /\ drawn.hl = {sel}

\* C18: a failing terminal call makes the interaction return that I/O error
\* at once: the calls that follow it in the code are not made (no further
\* output, cursor change or key read), no Selected or Cancelled is produced,
\* and the entry point returns the error.
C18_ErrorsPropagate ==
  /\ [](inner = IoErr =>
          /\ failed # "none"
          /\ pc \in {"return", "done"}
          /\ pc = "done" => ret = IoErr)
  /\ [][inner = IoErr =>
          UNCHANGED <<term, out, key, drawn, sel, paging, inner>>]_vars
  /\ [][(inner = Pending /\ inner' = IoErr) =>
          /\ pc' = "return"
          /\ key' = key /\ drawn' = drawn /\ paging' = paging
          /\ failed' \notin {"show_cursor", "flush"} =>
               /\ confirmation' = confirmation
               /\ cursorHidden' = cursorHidden
               /\ showCalls' = showCalls
          /\ failed' \notin {"select_prompt_paged", "select_prompt_selection",
                             "show_cursor", "flush"} =>
               screen' = screen /\ overErased' = overErased
          /\ failed' = "select_prompt_paged" =>
               screen' = ClearLastLines(screen, paging.capacity)
          /\ failed' = "select_prompt_selection" =>
               ~Has(screen', "confirmation")
          /\ failed' = "show_cursor" => cursorHidden' = cursorHidden
        ]_vars

C18_Witness ==
  /\ pc = "done" /\ ret = IoErr /\ failed = "clear_last_lines"
  /\ key \in CancelKeys /\ cursorHidden /\ showCalls = 0 /\ Has(screen, "item")

\* C19: no clear of the loop erases more than the widget drew: terminal
\* content above the widget is never erased, the prompt or page banner stays
\* on screen during the loop, and after the clear that ends an iteration no
\* item line is left.
C19_ClearsExact ==
  pc \in LoopPcs =>
    /\ ~overErased
    /\ prompt # NoPrompt => (Has(screen, "prompt") \/ Has(screen, "banner"))
    /\ pc \in {"update", "clear_paged", "render"} => ~Has(screen, "item")

\* C20: for every item count n >= 1 and every set index i in [0, n), Down
\* followed by Up and Up followed by Down both return the index to i, and
\* each single step stays in [0, n).
C20_WrapInverse ==
  /\ pc \in {"wrap1", "wrap2"} => sel \in 0..(wrap.n - 1)
  /\ (pc = "wrap2" /\ wrap.first = "down" /\ key \in UpKeys) => sel = wrap.start
  /\ (pc = "wrap2" /\ wrap.first = "up" /\ key \in DownKeys) => sel = wrap.start

C20_Witness ==
  /\ pc = "wrap2" /\ wrap.first = "up" /\ key \in DownKeys
  /\ wrap.start = 0 /\ wrap.n = 5 /\ sel = 0
====
